---------------------------- MODULE Spec2Model ----------------------------
(***************************************************************************)
(* Model of src/app.js: the complex-number expression engine               *)
(* (Complex, tokenize, parseExpression, evalAst, collectVars,              *)
(* expressionsEquivalent).                                                 *)
(*                                                                         *)
(* Text is a sequence of one-character strings.  A JavaScript number is a  *)
(* record [n, d, e]: the value (n / d) * 2^e when d > 0, NaN when n = 0    *)
(* and d = 0, and Inexact (a value that is not tracked: an irrational      *)
(* root, a sine or cosine, an overflow) when n = 1 and d = 0.  Exact       *)
(* arithmetic stands for IEEE double arithmetic: the range of a double     *)
(* (underflow to 0, overflow) is modelled, the rounding of its 53-bit      *)
(* significand is not.                                                     *)
(***************************************************************************)
EXTENDS Integers, Sequences, FiniteSets, TLC

(* ------------------------------ bounds --------------------------------- *)
\* components of the values of the round-trip specification: -MaxInt..MaxInt
MaxInt == 12
\* the most pieces of a source text
MaxPieces == 5
\* the most tokens of a token sequence handed to parseExpression
MaxToks == 4
\* the most characters of a text bound to a variable
MaxBindLen == 3
\* the most rounds asked of expressionsEquivalent
MaxTrials == 2

(* ------------------------------ numbers -------------------------------- *)
Abs(x) == IF x < 0 THEN -x ELSE x
Min(x, y) == IF x < y THEN x ELSE y

RECURSIVE GCD(_, _)
GCD(a, b) == IF b = 0 THEN a ELSE GCD(b, a % b)

RECURSIVE IntPow(_, _)
IntPow(b, k) == IF k = 0 THEN 1 ELSE b * IntPow(b, k - 1)

\* the number of factors 2 of k > 0
RECURSIVE Twos(_)
Twos(k) == IF k % 2 = 1 THEN 0 ELSE 1 + Twos(k \div 2)

\* the number of binary digits of k >= 0
RECURSIVE BitLen(_)
BitLen(k) == IF k = 0 THEN 0 ELSE 1 + BitLen(k \div 2)

\* A number is the record [n, d, e], the value (n / d) * 2^e with n and d odd
\* and coprime and d > 0; 0 is [0, 1, 0]; d = 0 marks NaN (n = 0) and Inexact
\* (n = 1).
NaN == [n |-> 0, d |-> 0, e |-> 0]
Inexact == [n |-> 1, d |-> 0, e |-> 0]
Zero == [n |-> 0, d |-> 1, e |-> 0]
IsRat(q) == q.d > 0

\* Number.MIN_VALUE is 2^MinSubnormalExp: a result of magnitude under half of
\* it is rounded to 0
MinSubnormalExp == -1074
\* a double is under 2^MaxExp; a result of magnitude 2^MaxExp or more is
\* Infinity, which is no rational
MaxExp == 1024

\* the double a result q is rounded to, as far as its range goes
Round(q) ==
    IF q.n = 0 THEN Zero
    ELSE IF q.e + BitLen(Abs(q.n)) - (BitLen(q.d) - 1) <= MinSubnormalExp - 1
         THEN Zero
    ELSE IF q.e + (BitLen(Abs(q.n)) - 1) - BitLen(q.d) >= MaxExp THEN Inexact
    ELSE q

\* the number (a / b) * 2^e0, for integers a and b
Norm(a, b, e0) ==
    IF b = 0 THEN NaN
    ELSE IF a = 0 THEN Zero
    ELSE LET g == GCD(Abs(a), Abs(b))
             s == IF b < 0 THEN -1 ELSE 1
             a1 == (s * a) \div g
             b1 == (s * b) \div g
             ta == Twos(Abs(a1))
             tb == Twos(b1)
         IN Round([n |-> a1 \div IntPow(2, ta), d |-> b1 \div IntPow(2, tb),
                   e |-> e0 + ta - tb])

Rat(a, b) == Norm(a, b, 0)
Int2Num(k) == Norm(k, 1, 0)
One == Int2Num(1)

\* a NaN or Inexact operand makes the result NaN or Inexact
Special(a, b) == IF a = NaN \/ b = NaN THEN NaN ELSE Inexact

\* exponents further apart than this are not brought to a common one
MaxShift == 20
\* the significand of a double has 53 bits: a term 2^AbsorbShift times
\* smaller than the other does not change a sum
AbsorbShift == 100

NumAdd(a, b) ==
    IF ~(IsRat(a) /\ IsRat(b)) THEN Special(a, b)
    ELSE IF a.n = 0 THEN b
    ELSE IF b.n = 0 THEN a
    ELSE LET e0 == Min(a.e, b.e)
             sa == a.e - e0
             sb == b.e - e0
         IN IF sa <= MaxShift /\ sb <= MaxShift
            THEN Norm(a.n * IntPow(2, sa) * b.d + b.n * IntPow(2, sb) * a.d,
                      a.d * b.d, e0)
            ELSE IF sa >= AbsorbShift THEN a
            ELSE IF sb >= AbsorbShift THEN b
            ELSE Inexact
NumNeg(a) == IF IsRat(a) THEN [a EXCEPT !.n = -a.n] ELSE a
NumSub(a, b) == NumAdd(a, NumNeg(b))
NumMul(a, b) ==
    IF IsRat(a) /\ IsRat(b) THEN Norm(a.n * b.n, a.d * b.d, a.e + b.e)
    ELSE Special(a, b)
\* a / b with b # 0 (the callers test the divisor)
NumDiv(a, b) ==
    IF IsRat(a) /\ IsRat(b) THEN Norm(a.n * b.d, a.d * b.n, a.e - b.e)
    ELSE Special(a, b)
NumAbs(a) == IF IsRat(a) THEN [a EXCEPT !.n = Abs(a.n)] ELSE a
\* a < b; any comparison with NaN is false
NumLt(a, b) == LET diff == NumSub(a, b) IN IsRat(diff) /\ diff.n < 0
\* a >= b; any comparison with NaN is false
NumGe(a, b) == LET diff == NumSub(a, b) IN IsRat(diff) /\ diff.n >= 0
\* a === 0
NumIsZero(a) == IsRat(a) /\ a.n = 0
\* a is an integer small enough to be counted with
IsInteger(a) == IsRat(a) /\ a.d = 1 /\ a.e >= 0 /\ a.e <= MaxShift
IntVal(a) == a.n * IntPow(2, a.e)

\* Math.sign(x)
NumSign(a) == IF ~IsRat(a) THEN a
              ELSE Int2Num(IF a.n > 0 THEN 1 ELSE IF a.n < 0 THEN -1 ELSE 0)

RECURSIVE ISqrtFrom(_, _)
ISqrtFrom(k, x) == IF (k + 1) * (k + 1) > x THEN k ELSE ISqrtFrom(k + 1, x)
\* Math.sqrt(x): exact on squares of rationals, NaN below 0, else Inexact
NumSqrt(a) ==
    IF ~IsRat(a) THEN a
    ELSE IF a.n < 0 THEN NaN
    ELSE LET p == ISqrtFrom(0, a.n)
             q == ISqrtFrom(0, a.d)
         IN IF p * p = a.n /\ q * q = a.d /\ a.e % 2 = 0
            THEN [n |-> p, d |-> q, e |-> a.e \div 2]
            ELSE Inexact

(* ------------------------------- text ---------------------------------- *)
Digits == <<"0", "1", "2", "3", "4", "5", "6", "7", "8", "9">>
DigitSet == {Digits[k] : k \in 1..10}
DigitVal(c) == (CHOOSE k \in 1..10 : Digits[k] = c) - 1
IsDigits(s) == \A k \in 1..Len(s) : s[k] \in DigitSet

RECURSIVE DigitsVal(_)
DigitsVal(s) ==
    IF s = <<>> THEN 0
    ELSE 10 * DigitsVal(SubSeq(s, 1, Len(s) - 1)) + DigitVal(s[Len(s)])

RECURSIVE NatToStr(_)
NatToStr(k) ==
    IF k < 10 THEN <<Digits[k + 1]>>
    ELSE NatToStr(k \div 10) \o <<Digits[(k % 10) + 1]>>

\* the digits of r/d after the decimal point, at most `left` of them
RECURSIVE FracDigits(_, _, _)
FracDigits(r, d, left) ==
    IF r = 0 \/ left = 0 THEN <<>>
    ELSE <<Digits[((10 * r) \div d) + 1]>> \o FracDigits((10 * r) % d, d, left - 1)

\* the most fraction digits String(number) prints
MaxFracDigits == 16

\* String(x) of a number in plain decimal notation; the text of a number
\* whose exponent is out of the range of MaxShift is not modelled
NumToStr(a) ==
    IF a = NaN THEN <<"N", "a", "N">>
    ELSE IF ~IsRat(a) \/ Abs(a.e) > MaxShift THEN <<"~">>
    ELSE LET m == Abs(a.n) * (IF a.e > 0 THEN IntPow(2, a.e) ELSE 1)
             dd == a.d * (IF a.e < 0 THEN IntPow(2, -a.e) ELSE 1)
             ip == NatToStr(m \div dd)
             fp == FracDigits(m % dd, dd, MaxFracDigits)
         IN (IF a.n < 0 THEN <<"-">> ELSE <<>>) \o ip
            \o (IF fp = <<>> THEN <<>> ELSE <<".">> \o fp)

\* s.indexOf(c), counted from 1; 0 when absent
IndexOf(s, c) ==
    IF \E k \in 1..Len(s) : s[k] = c
    THEN CHOOSE k \in 1..Len(s) : s[k] = c /\ \A j \in 1..(k - 1) : s[j] # c
    ELSE 0

\* Number(t) of a text without white space, for texts of signs, digits,
\* dots and letters other than those of exponents, radix prefixes and
\* "Infinity": the empty text is 0, a signed decimal literal its value,
\* anything else NaN
Number(t) ==
    IF t = <<>> THEN Zero
    ELSE LET sgn == IF t[1] = "-" THEN -1 ELSE 1
             b == IF t[1] \in {"+", "-"} THEN Tail(t) ELSE t
             dot == IndexOf(b, ".")
             ip == IF dot = 0 THEN b ELSE SubSeq(b, 1, dot - 1)
             fp == IF dot = 0 THEN <<>> ELSE SubSeq(b, dot + 1, Len(b))
         IN IF b = <<>> \/ ~IsDigits(ip) \/ ~IsDigits(fp)
               \/ (ip = <<>> /\ fp = <<>>)
            THEN NaN
            ELSE Rat(sgn * (DigitsVal(ip) * IntPow(10, Len(fp)) + DigitsVal(fp)),
                     IntPow(10, Len(fp)))

(* ------------------------------ Complex -------------------------------- *)
\* Number(x) || 0
OrZero(a) == IF a = NaN \/ NumIsZero(a) THEN Zero ELSE a

\* new Complex(re, im)
Complex(re, im) == [re |-> OrZero(re), im |-> OrZero(im)]

CZero == Complex(Zero, Zero)

\* the outcome of a call that may throw
Ok(v) == [ok |-> TRUE, val |-> v, err |-> "none", frag |-> <<>>]
ErrAt(e, fragment) == [ok |-> FALSE, val |-> CZero, err |-> e, frag |-> fragment]
Err(e) == ErrAt(e, <<>>)

RemoveWs(s) == SelectSeq(s, LAMBDA c : c # " ")

\* the last index k >= 2 of core holding a sign; 0 when there is none
LastSep(core) ==
    LET S == {k \in 2..Len(core) : core[k] \in {"+", "-"}}
    IN IF S = {} THEN 0 ELSE CHOOSE k \in S : \A j \in S : j <= k

\* Complex.fromString(s)
fromString(s0) ==
    LET s == RemoveWs(s0)
    IN IF s = <<>> THEN Err("EmptyComplexLiteral")
       ELSE IF s = <<"i">> THEN Ok(Complex(Zero, One))
       ELSE IF s = <<"-", "i">> THEN Ok(Complex(Zero, Int2Num(-1)))
       ELSE IF IndexOf(s, "i") # 0 THEN
            LET idxI == IndexOf(s, "i")
                core == SubSeq(s, 1, idxI - 1)
                sep == LastSep(core)
            IN IF core = <<>> THEN Ok(Complex(Zero, One))
               ELSE IF core = <<"+">> THEN Ok(Complex(Zero, One))
               ELSE IF core = <<"-">> THEN Ok(Complex(Zero, Int2Num(-1)))
               ELSE IF sep = 0 THEN Ok(Complex(Zero, Number(core)))
               ELSE Ok(Complex(Number(SubSeq(core, 1, sep - 1)),
                               Number(SubSeq(core, sep, Len(core)))))
       ELSE Ok(Complex(Number(s), Zero))

\* z.toString()
toString(z) ==
    LET reStr == NumToStr(z.re)
        imAbs == NumAbs(z.im)
        sign == IF NumGe(z.im, Zero) THEN <<"+">> ELSE <<"-">>
        imPart == IF imAbs = One THEN <<"i">> ELSE NumToStr(imAbs) \o <<"i">>
    IN IF NumIsZero(z.im) THEN reStr
       ELSE IF NumIsZero(z.re)
            THEN (IF z.im = One THEN <<"i">>
                  ELSE IF z.im = Int2Num(-1) THEN <<"-", "i">>
                  ELSE NumToStr(z.im) \o <<"i">>)
       ELSE reStr \o sign \o imPart

CAdd(a, b) == Complex(NumAdd(a.re, b.re), NumAdd(a.im, b.im))
CSub(a, b) == Complex(NumSub(a.re, b.re), NumSub(a.im, b.im))
CMul(a, b) == Complex(NumSub(NumMul(a.re, b.re), NumMul(a.im, b.im)),
                      NumAdd(NumMul(a.re, b.im), NumMul(a.im, b.re)))
CConj(a) == Complex(a.re, NumNeg(a.im))
CNeg(a) == Complex(NumNeg(a.re), NumNeg(a.im))

(* ------------------------------ tokenize ------------------------------- *)
LetterSet ==
    {"a", "b", "c", "d", "e", "f", "g", "h", "i", "j", "k", "l", "m", "n", "o",
     "p", "q", "r", "s", "t", "u", "v", "w", "x", "y", "z",
     "A", "B", "C", "D", "E", "F", "G", "H", "I", "J", "K", "L", "M", "N", "O",
     "P", "Q", "R", "S", "T", "U", "V", "W", "X", "Y", "Z", "_"}
PunctSet == {"(", ")", "+", "-", "*", "/", "^", ","}

\* the number of consecutive characters of s from index p on that are in C
RECURSIVE RunLen(_, _, _)
RunLen(s, p, C) ==
    IF p <= Len(s) /\ s[p] \in C THEN 1 + RunLen(s, p + 1, C) ELSE 0

\* the length of the text that the group of the token pattern
\*   [A-Za-z_][A-Za-z0-9_]*|\d*\.\d+|\d+|[()+\-*/^,]|(\*\*)|i
\* matches at index p of s, its alternatives tried in this order; 0 when
\* none matches
TokenLen(s, p) ==
    IF p > Len(s) THEN 0
    ELSE IF s[p] \in LetterSet THEN 1 + RunLen(s, p + 1, LetterSet \cup DigitSet)
    ELSE LET nd == RunLen(s, p, DigitSet)
             nf == IF p + nd <= Len(s) /\ s[p + nd] = "."
                   THEN RunLen(s, p + nd + 1, DigitSet) ELSE 0
         IN IF nf > 0 THEN nd + 1 + nf
            ELSE IF nd > 0 THEN nd
            ELSE IF s[p] \in PunctSet THEN 1
            ELSE IF s[p] = "*" /\ p + 1 <= Len(s) /\ s[p + 1] = "*" THEN 2
            ELSE IF s[p] = "i" THEN 1
            ELSE 0

LexOk(ts) == [ok |-> TRUE, toks |-> ts, err |-> "none"]
LexErr(e) == [ok |-> FALSE, toks |-> <<>>, err |-> e]

\* the loop of tokenize: idx characters of input are consumed
RECURSIVE TokenizeFrom(_, _, _)
TokenizeFrom(input, idx, tokens) ==
    IF ~(idx < Len(input)) THEN LexOk(tokens)
    ELSE LET p == idx + 1 + RunLen(input, idx + 1, {" "})
             n == TokenLen(input, p)
             q == p + n
         IN IF n = 0 THEN LexErr("InvalidToken")
            ELSE TokenizeFrom(input, (q - 1) + RunLen(input, q, {" "}),
                              Append(tokens, SubSeq(input, p, q - 1)))

tokenize(input) == TokenizeFrom(input, 0, <<>>)

(* --------------------------- parseExpression --------------------------- *)
\* what tokens[pos] is when pos is not an index of tokens
Undefined == <<"undefined">>
\* String(t)
ToStr(t) == IF t = Undefined
            THEN <<"u", "n", "d", "e", "f", "i", "n", "e", "d">> ELSE t

NumNode(v) == [type |-> "num", value |-> v]
VarNode(name) == [type |-> "var", name |-> name]
OpNode(op, args) == [type |-> "op", op |-> op, args |-> args]
CallNode(name, args) == [type |-> "call", name |-> name, args |-> args]
NoAst == [type |-> "none"]

\* the outcome of a parsing function: the node and the cursor, or the error
\* thrown and the cursor at the throw
POk(node, pos) == [ok |-> TRUE, ast |-> node, pos |-> pos, err |-> "none"]
PErr(e, pos) == [ok |-> FALSE, ast |-> NoAst, pos |-> pos, err |-> e]

\* peek(): tokens[pos], pos counted from 0
peek(tokens, pos) == IF pos < Len(tokens) THEN tokens[pos + 1] ELSE Undefined

\* consume(expected): the cursor after it, or the throw
consume(tokens, pos, expected) ==
    IF expected # Undefined /\ peek(tokens, pos) # expected
    THEN PErr("UnexpectedToken", pos)
    ELSE POk(NoAst, pos + 1)

\* /^\d/.test(t) || /^\d*\.\d+$/.test(t)
IsNumberToken(t) ==
    LET s == ToStr(t)
        nd == RunLen(s, 1, DigitSet)
    IN \/ s[1] \in DigitSet
       \/ /\ nd + 1 <= Len(s)
          /\ s[nd + 1] = "."
          /\ RunLen(s, nd + 2, DigitSet) > 0
          /\ nd + 1 + RunLen(s, nd + 2, DigitSet) = Len(s)

\* /^[A-Za-z_][A-Za-z0-9_]*$/.test(t)
IsIdentifier(t) ==
    LET s == ToStr(t)
    IN s[1] \in LetterSet /\ 1 + RunLen(s, 2, LetterSet \cup DigitSet) = Len(s)

\* The parsing functions call one another through parseRule:
\* parseRule(name, tokens, at) is name(tokens, at).
RECURSIVE parseRule(_, _, _)

\* the while (true) loop of a call's argument list: st holds the arguments
\* parsed so far (as ast) and the cursor; the ast of the outcome is args
ArgsLoop(tokens, st) ==
    LET a == parseRule("parseAddSub", tokens, st.pos)
    IN IF ~a.ok THEN a
       ELSE IF peek(tokens, a.pos) = <<",">>
            THEN parseRule("ArgsLoop", tokens,
                      POk(Append(st.ast, a.ast), consume(tokens, a.pos, <<",">>).pos))
       ELSE POk(Append(st.ast, a.ast), a.pos)

\* a unary sign taking its operand from parsePower
UnaryOperandPower == "parsePower"

\* the parsing function a unary + or - takes its operand from:
\* const prim = parsePrimary()
UnaryOperand == "parsePrimary"

parsePrimary(tokens, pos) ==
    LET t == peek(tokens, pos)
    IN IF t = <<"(">> THEN
            LET node == parseRule("parseAddSub", tokens, consume(tokens, pos, <<"(">>).pos)
            IN IF ~node.ok THEN node
               ELSE IF peek(tokens, node.pos) # <<")">>
                    THEN PErr("UnclosedParenthesis", node.pos)
               ELSE POk(node.ast, consume(tokens, node.pos, <<")">>).pos)
       ELSE IF IsNumberToken(t) THEN
            LET p1 == consume(tokens, pos, Undefined).pos
            IN IF peek(tokens, p1) = <<"i">>
               THEN POk(NumNode(fromString(t \o <<"i">>).val),
                        consume(tokens, p1, <<"i">>).pos)
               ELSE POk(NumNode(Complex(Number(t), Zero)), p1)
       ELSE IF t = <<"i">> THEN
            POk(NumNode(Complex(Zero, One)), consume(tokens, pos, <<"i">>).pos)
       ELSE IF IsIdentifier(t) THEN
            LET p1 == consume(tokens, pos, Undefined).pos
            IN IF peek(tokens, p1) = <<"(">> THEN
                    LET p2 == consume(tokens, p1, <<"(">>).pos
                        as == IF peek(tokens, p2) # <<")">>
                              THEN parseRule("ArgsLoop", tokens, POk(<<>>, p2))
                              ELSE POk(<<>>, p2)
                    IN IF ~as.ok THEN as
                       ELSE IF peek(tokens, as.pos) # <<")">>
                            THEN PErr("UnclosedParenthesis", as.pos)
                       ELSE POk(CallNode(t, as.ast),
                                consume(tokens, as.pos, <<")">>).pos)
               ELSE POk(VarNode(t), p1)
       ELSE IF t = <<"+">> \/ t = <<"-">> THEN
            LET prim == parseRule(UnaryOperand, tokens, consume(tokens, pos, Undefined).pos)
            IN IF ~prim.ok THEN prim
               ELSE IF t = <<"-">> THEN POk(OpNode("neg", <<prim.ast>>), prim.pos)
               ELSE prim
       ELSE PErr("InvalidPrimary", pos)

\* the while loop of parsePower, left parsed
PowerLoop(tokens, left) ==
    IF peek(tokens, left.pos) = <<"*", "*">> \/ peek(tokens, left.pos) = <<"^">>
    THEN LET right == parseRule("parsePower", tokens, consume(tokens, left.pos, Undefined).pos)
         IN IF ~right.ok THEN right
            ELSE parseRule("PowerLoop", tokens,
                           POk(OpNode("**", <<left.ast, right.ast>>), right.pos))
    ELSE left

parsePower(tokens, pos) ==
    LET left == parseRule("parsePrimary", tokens, pos)
    IN IF ~left.ok THEN left ELSE parseRule("PowerLoop", tokens, left)

\* the while loop of parseMulDiv, node parsed
MulDivLoop(tokens, node) ==
    LET op == peek(tokens, node.pos)
    IN IF op = <<"*">> \/ op = <<"/">>
       THEN LET right == parseRule("parsePower", tokens, consume(tokens, node.pos, Undefined).pos)
            IN IF ~right.ok THEN right
               ELSE parseRule("MulDivLoop", tokens,
                               POk(OpNode(op[1], <<node.ast, right.ast>>), right.pos))
       ELSE node

parseMulDiv(tokens, pos) ==
    LET node == parseRule("parsePower", tokens, pos)
    IN IF ~node.ok THEN node ELSE parseRule("MulDivLoop", tokens, node)

\* the while loop of parseAddSub, node parsed
AddSubLoop(tokens, node) ==
    LET op == peek(tokens, node.pos)
    IN IF op = <<"+">> \/ op = <<"-">>
       THEN LET right == parseRule("parseMulDiv", tokens, consume(tokens, node.pos, Undefined).pos)
            IN IF ~right.ok THEN right
               ELSE parseRule("AddSubLoop", tokens,
                               POk(OpNode(op[1], <<node.ast, right.ast>>), right.pos))
       ELSE node

parseAddSub(tokens, pos) ==
    LET node == parseRule("parseMulDiv", tokens, pos)
    IN IF ~node.ok THEN node ELSE parseRule("AddSubLoop", tokens, node)

\* the call name(tokens, at) of a parsing function
parseRule(name, tokens, at) ==
    CASE name = "parsePrimary" -> parsePrimary(tokens, at)
      [] name = "ArgsLoop" -> ArgsLoop(tokens, at)
      [] name = "parsePower" -> parsePower(tokens, at)
      [] name = "PowerLoop" -> PowerLoop(tokens, at)
      [] name = "parseMulDiv" -> parseMulDiv(tokens, at)
      [] name = "MulDivLoop" -> MulDivLoop(tokens, at)
      [] name = "parseAddSub" -> parseAddSub(tokens, at)
      [] name = "AddSubLoop" -> AddSubLoop(tokens, at)

parseExpression(tokens) ==
    LET ast == parseRule("parseAddSub", tokens, 0)
    IN IF ~ast.ok THEN ast
       ELSE IF ast.pos < Len(tokens) THEN PErr("TrailingTokens", ast.pos)
       ELSE ast

(* ------------------------------ evalAst -------------------------------- *)
COne == Complex(One, Zero)

\* a.div(b) with the divisor tested on its real part alone
CDivRealTest(a, b) ==
    LET denom == NumAdd(NumMul(b.re, b.re), NumMul(b.im, b.im))
    IN IF NumIsZero(b.re) THEN Err("DivisionByZero")
       ELSE Ok(Complex(
                NumDiv(NumAdd(NumMul(a.re, b.re), NumMul(a.im, b.im)), denom),
                NumDiv(NumSub(NumMul(a.im, b.re), NumMul(a.re, b.im)), denom)))

\* a.div(b)
CDiv(a, b) ==
    LET denom == NumAdd(NumMul(b.re, b.re), NumMul(b.im, b.im))
    IN IF NumIsZero(denom) THEN Err("DivisionByZero")
       ELSE Ok(Complex(
                NumDiv(NumAdd(NumMul(a.re, b.re), NumMul(a.im, b.im)), denom),
                NumDiv(NumSub(NumMul(a.im, b.re), NumMul(a.re, b.im)), denom)))

\* a^k for a finite a and k >= 0; a power that has underflowed to 0 stays 0
RECURSIVE CPowNat(_, _)
CPowNat(a, k) ==
    IF k = 0 THEN COne
    ELSE IF k % 2 = 1
         THEN LET p == CPowNat(a, k - 1)
              IN IF p = CZero THEN CZero ELSE CMul(a, p)
    ELSE LET h == CPowNat(a, k \div 2)
         IN IF h = CZero THEN CZero ELSE CMul(h, h)

\* a.abs()
CAbs(a) == NumSqrt(NumAdd(NumMul(a.re, a.re), NumMul(a.im, a.im)))

\* a.pow(n): rn = Math.pow(r, n) and thn = theta * n, the result
\* (rn * cos(thn), rn * sin(thn)).  With n = 0 it is (1, 0).  At the origin
\* theta = 0 and rn is 0 or Infinity (Infinity * sin(0) is NaN).  A positive
\* real base has theta = 0, so the result is (rn, 0).  Any other base has an
\* angle that is a rounded multiple of pi, so that neither cos(thn) nor
\* sin(thn) is exact: both parts are Inexact.
CPow(a, n) ==
    IF ~IsRat(n) \/ ~IsRat(a.re) \/ ~IsRat(a.im) THEN Complex(Inexact, Inexact)
    ELSE IF n.n = 0 THEN COne
    ELSE IF a = CZero
         THEN (IF n.n > 0 THEN CZero ELSE Complex(Inexact, NaN))
    ELSE IF NumIsZero(a.im) /\ a.re.n > 0
         THEN (IF IsInteger(n) /\ n.n > 0 THEN CPowNat(a, IntVal(n))
               ELSE IF IsInteger(NumNeg(n))
                    THEN CPowNat(CDiv(COne, a).val, IntVal(NumNeg(n)))
               ELSE Complex(Inexact, Zero))
    ELSE Complex(Inexact, Inexact)

\* a.approxEquals(b, eps)
approxEquals(a, b, eps) ==
    /\ NumLt(NumAbs(NumSub(a.re, b.re)), eps)
    /\ NumLt(NumAbs(NumSub(a.im, b.im)), eps)

\* Complex.sqrt(z)
CSqrt(a) ==
    LET r == CAbs(a)
        re == NumSqrt(NumDiv(NumAdd(r, a.re), Int2Num(2)))
        im == NumMul(NumSign(IF NumIsZero(a.im) \/ a.im = NaN THEN One ELSE a.im),
                     NumSqrt(NumDiv(NumSub(r, a.re), Int2Num(2))))
    IN Complex(re, im)

Upper == <<"A", "B", "C", "D", "E", "F", "G", "H", "I", "J", "K", "L", "M",
           "N", "O", "P", "Q", "R", "S", "T", "U", "V", "W", "X", "Y", "Z">>
Lower == <<"a", "b", "c", "d", "e", "f", "g", "h", "i", "j", "k", "l", "m",
           "n", "o", "p", "q", "r", "s", "t", "u", "v", "w", "x", "y", "z">>
\* s.toLowerCase()
toLowerCase(s) ==
    [k \in 1..Len(s) |->
        IF \E j \in 1..26 : Upper[j] = s[k]
        THEN Lower[CHOOSE j \in 1..26 : Upper[j] = s[k]]
        ELSE s[k]]

T_conj == <<"c", "o", "n", "j">>
T_conjugate == <<"c", "o", "n", "j", "u", "g", "a", "t", "e">>
T_sqrt == <<"s", "q", "r", "t">>
T_raiz == <<"r", "a", "i", "z">>

\* the lookup of the name in vars: the text bound to it is read by fromString
EvalVar(name, vars) ==
    IF ToStr(name) \notin DOMAIN vars
    THEN ErrAt("UnboundVariable", ToStr(name))
    ELSE fromString(vars[ToStr(name)])

\* a call dispatched on the name as written
EvalCallCaseSensitive(name, args) ==
    IF ~args.ok THEN args
    ELSE IF name = T_conj \/ name = T_conjugate
         THEN (IF Len(args.val) # 1 THEN ErrAt("ArityError", T_conj)
               ELSE Ok(CConj(args.val[1])))
    ELSE IF name = T_sqrt \/ name = T_raiz
         THEN (IF Len(args.val) # 1 THEN ErrAt("ArityError", T_sqrt)
               ELSE Ok(CSqrt(args.val[1])))
    ELSE ErrAt("UnknownFunction", name)

\* a call whose arguments gave args: the first throw among them, or their
\* values; dispatch is on the lower-cased name
EvalCall(name, args) ==
    LET fn == toLowerCase(name)
    IN IF ~args.ok THEN args
       ELSE IF fn = T_conj \/ fn = T_conjugate
            THEN (IF Len(args.val) # 1 THEN ErrAt("ArityError", T_conj)
                  ELSE Ok(CConj(args.val[1])))
       ELSE IF fn = T_sqrt \/ fn = T_raiz
            THEN (IF Len(args.val) # 1 THEN ErrAt("ArityError", T_sqrt)
                  ELSE Ok(CSqrt(args.val[1])))
       ELSE ErrAt("UnknownFunction", name)

\* evalAst(l).add(evalAst(r)), .sub, .mul: l is evaluated, then r
EvalArith(op, l, r) ==
    IF ~l.ok THEN l
    ELSE IF ~r.ok THEN r
    ELSE Ok(CASE op = "+" -> CAdd(l.val, r.val)
              [] op = "-" -> CSub(l.val, r.val)
              [] op = "*" -> CMul(l.val, r.val))

\* op '/' with the operands taken left to right
EvalDivLeftFirst(num, denom) ==
    IF ~num.ok THEN num
    ELSE IF ~denom.ok THEN denom
    ELSE IF NumIsZero(denom.val.re) /\ NumIsZero(denom.val.im)
         THEN Err("DivisionByZero")
    ELSE CDiv(num.val, denom.val)

\* op '/': denom is evaluated and tested, then num is evaluated and divided
EvalDiv(num, denom) ==
    IF ~denom.ok THEN denom
    ELSE IF NumIsZero(denom.val.re) /\ NumIsZero(denom.val.im)
         THEN Err("DivisionByZero")
    ELSE IF ~num.ok THEN num
    ELSE CDiv(num.val, denom.val)

\* op '**': base is evaluated, then ex; only a real exponent is raised to
EvalPow(base, ex) ==
    IF ~base.ok THEN base
    ELSE IF ~ex.ok THEN ex
    ELSE IF ~NumIsZero(ex.val.im) THEN Err("ComplexExponentUnsupported")
    ELSE Ok(CPow(base.val, ex.val.re))

RECURSIVE evalAst(_, _), EvalArgs(_, _, _)

\* ast.args.map(a => evalAst(a, vars)) from index k on: the values, or the
\* first throw; val of the outcome is the sequence of values
EvalArgs(args, vars, k) ==
    IF k > Len(args) THEN Ok(<<>>)
    ELSE LET a == evalAst(args[k], vars)
         IN IF ~a.ok THEN a
            ELSE LET rest == EvalArgs(args, vars, k + 1)
                 IN IF ~rest.ok THEN rest ELSE Ok(<<a.val>> \o rest.val)

\* evalAst(ast, vars): vars maps names to the texts bound to them
evalAst(ast, vars) ==
    IF ast.type = "num" THEN Ok(ast.value)
    ELSE IF ast.type = "var" THEN EvalVar(ast.name, vars)
    ELSE IF ast.type = "call"
         THEN EvalCall(ast.name, EvalArgs(ast.args, vars, 1))
    ELSE IF ast.type = "op" THEN
        IF ast.op = "neg" THEN
            LET v == evalAst(ast.args[1], vars)
            IN IF ~v.ok THEN v ELSE Ok(CNeg(v.val))
        ELSE IF ast.op \in {"+", "-", "*"}
             THEN EvalArith(ast.op, evalAst(ast.args[1], vars),
                            evalAst(ast.args[2], vars))
        ELSE IF ast.op = "/"
             THEN EvalDiv(evalAst(ast.args[1], vars), evalAst(ast.args[2], vars))
        ELSE IF ast.op = "**"
             THEN EvalPow(evalAst(ast.args[1], vars), evalAst(ast.args[2], vars))
        ELSE Err("UnknownAst")
    ELSE Err("UnknownAst")

(* ----------------------------- collectVars ----------------------------- *)
RECURSIVE collectVars(_)
\* the names collectVars(ast, set) adds to set
collectVars(ast) ==
    IF ast.type = "var" THEN {ast.name}
    ELSE IF ast.type = "call" \/ ast.type = "op"
         THEN UNION {collectVars(ast.args[k]) : k \in 1..Len(ast.args)}
    ELSE {}

(* ------------------------------- state --------------------------------- *)
VARIABLES
    pc,          \* the step the run is at
    z,           \* round trip: the complex value
    text,        \* round trip: z.toString()
    back,        \* round trip: the outcome of Complex.fromString(text)
    src,         \* parsing: the source text
    lexed,       \* parsing: the outcome of tokenize(src)
    toks,        \* parsing: the tokens handed to parseExpression
    parsed,      \* parsing: the outcome of parseExpression(toks)
    ast,         \* evaluation: the tree
    env,         \* evaluation: the bindings, name -> text
    res,         \* evaluation: the outcome of evalAst(ast, env)
    ast1, ast2,  \* comparison: the two trees
    trials,      \* comparison: the number of rounds asked for
    t,           \* comparison: the loop counter of expressionsEquivalent
    assignment,  \* comparison: the bindings of the latest round
    cmp,         \* comparison: what expressionsEquivalent returned
    rounds       \* comparison: the bindings of the rounds run so far, in order

varsRT == <<z, text, back>>
varsParse == <<src, lexed, toks, parsed>>
varsEval == <<ast, env, res>>
varsCmp == <<ast1, ast2, trials, t, assignment, cmp, rounds>>
vars == <<pc, varsRT, varsParse, varsEval, varsCmp>>

\* what expressionsEquivalent returns: { equal: true }, or { equal: false,
\* counterexample, v1, v2 }; returned is FALSE while the loop runs
NoCmp == [returned |-> FALSE, equal |-> FALSE, counterexample |-> <<>>,
          v1 |-> <<>>, v2 |-> <<>>]
Equal == [NoCmp EXCEPT !.returned = TRUE, !.equal = TRUE]
NotEqual(a, v1, v2) == [returned |-> TRUE, equal |-> FALSE, counterexample |-> a,
                        v1 |-> v1, v2 |-> v2]

IdleRT == z = CZero /\ text = <<>> /\ back = Err("none")
IdleParse == /\ src = <<>> /\ lexed = LexErr("none") /\ toks = <<>>
             /\ parsed = PErr("none", 0)
IdleEval == ast = NoAst /\ env = <<>> /\ res = Err("none")
IdleCmp == /\ ast1 = NoAst /\ ast2 = NoAst /\ trials = 0 /\ t = 0
           /\ assignment = <<>> /\ cmp = NoCmp /\ rounds = <<>>

\* the texts of at most n elements of the set S
RECURSIVE SeqsUpTo(_, _)
SeqsUpTo(S, n) ==
    IF n = 0 THEN {<<>>}
    ELSE LET shorter == SeqsUpTo(S, n - 1)
         IN shorter \cup {Append(q, c) : q \in shorter, c \in S}

RECURSIVE Concat(_)
Concat(ss) == IF ss = <<>> THEN <<>> ELSE Head(ss) \o Concat(Tail(ss))

(* --------------------------- round trip -------------------------------- *)
RTValues == {Complex(Int2Num(a), Int2Num(b)) : a \in -MaxInt..MaxInt, b \in -MaxInt..MaxInt}

InitRT ==
    /\ pc = "value"
    /\ z \in RTValues
    /\ text = <<>>
    /\ back = Err("none")
    /\ IdleParse /\ IdleEval /\ IdleCmp

Format ==
    /\ pc = "value"
    /\ text' = toString(z)
    /\ pc' = "text"
    /\ UNCHANGED <<z, back, varsParse, varsEval, varsCmp>>

Reparse ==
    /\ pc = "text"
    /\ back' = fromString(text)
    /\ pc' = "reparsed"
    /\ UNCHANGED <<z, text, varsParse, varsEval, varsCmp>>

NextRT == Format \/ Reparse

SpecRT == InitRT /\ [][NextRT]_vars

(* ----------------------------- parsing --------------------------------- *)
\* the pieces source texts are made of
SrcPieces == {<<"2">>, <<"3">>, <<"*", "*">>, <<"^">>, <<"*">>, <<"-">>, <<" ">>}
SrcTexts == {Concat(ps) : ps \in SeqsUpTo(SrcPieces, MaxPieces)}

\* the tokens of the token sequences handed to parseExpression directly
TokAlphabet == {<<"2">>, <<"x">>, <<"-">>, <<"+">>, <<"*", "*">>, <<"^">>,
                <<"(">>, <<")">>, <<",">>}
TokenSeqs == SeqsUpTo(TokAlphabet, MaxToks)

InitParse ==
    /\ \/ /\ pc = "src"
          /\ src \in SrcTexts
          /\ toks = <<>>
       \/ /\ pc = "tokens"
          /\ src = <<>>
          /\ toks \in TokenSeqs
    /\ lexed = LexErr("none")
    /\ parsed = PErr("none", 0)
    /\ IdleRT /\ IdleEval /\ IdleCmp

\* const toks = tokenize(src); a throw ends the run
Tokenize ==
    /\ pc = "src"
    /\ lexed' = tokenize(src)
    /\ toks' = lexed'.toks
    /\ pc' = IF lexed'.ok THEN "tokens" ELSE "failed"
    /\ UNCHANGED <<src, parsed, varsRT, varsEval, varsCmp>>

\* const ast = parseExpression(toks)
Parse ==
    /\ pc = "tokens"
    /\ parsed' = parseExpression(toks)
    /\ pc' = "parsed"
    /\ UNCHANGED <<src, lexed, toks, varsRT, varsEval, varsCmp>>

NextParse == Tokenize \/ Parse

SpecParse == InitParse /\ [][NextParse]_vars

(* ---------------------------- evaluation ------------------------------- *)
T_x == <<"x">>
T_y == <<"y">>
T_foo == <<"f", "o", "o">>
N(k) == NumNode(Complex(Int2Num(k), Zero))
BinOps == {"+", "-", "*", "/", "**"}

Leaves == {N(0), N(2), NumNode(Complex(Zero, One)), VarNode(T_x), VarNode(T_y)}
FnNames == {T_conj, T_conjugate, T_sqrt, T_raiz, T_foo,
            <<"C", "o", "n", "j">>, <<"S", "Q", "R", "T">>}
BinOver(L, R) == {OpNode(o, <<a, b>>) : o \in BinOps, a \in L, b \in R}
Nested == BinOver(Leaves, Leaves)
          \cup {OpNode("neg", <<a>>) : a \in Leaves}
          \cup {CallNode(f, as) : f \in FnNames, as \in SeqsUpTo(Leaves, 1)}
\* the trees evaluated: operators and calls over leaves, and over one
\* nested operand
EvalAsts ==
    Leaves \cup Nested
    \cup {CallNode(f, as) : f \in FnNames, as \in SeqsUpTo(Leaves, 2)}
    \cup BinOver(Nested, Leaves) \cup BinOver(Leaves, Nested)
    \cup {CallNode(f, <<a, b>>) : f \in {T_conj, T_sqrt, T_foo},
                                  a \in Leaves \cup Nested, b \in Leaves}
    \cup {OpNode("/", <<a, OpNode("**", <<N(2), OpNode("neg", <<N(k)>>)>>)>>) :
             a \in Leaves, k \in {500, 600}}
\* the bindings they are evaluated under: x unbound or bound, y never bound
SmallEnvs == {<<>>} \cup {(T_x :> b) : b \in {<<"0">>, <<"2">>, <<"2", "-", "3", "i">>}}

\* the texts bound to x
BindChars == {"1", "2", "+", "-", "i", "a", " "}
BindTexts == SeqsUpTo(BindChars, MaxBindLen)
BoundAsts == {VarNode(T_x), OpNode("neg", <<VarNode(T_x)>>),
              OpNode("+", <<VarNode(T_x), N(2)>>),
              OpNode("/", <<N(2), VarNode(T_x)>>),
              CallNode(T_conj, <<VarNode(T_x)>>)}

InitEval ==
    /\ pc = "ast"
    /\ \/ ast \in EvalAsts /\ env \in SmallEnvs
       \/ ast \in BoundAsts /\ env \in {(T_x :> b) : b \in BindTexts}
    /\ res = Err("none")
    /\ IdleRT /\ IdleParse /\ IdleCmp

\* const res = evalAst(ast, values)
Evaluate ==
    /\ pc = "ast"
    /\ res' = evalAst(ast, env)
    /\ pc' = "evaluated"
    /\ UNCHANGED <<ast, env, varsRT, varsParse, varsCmp>>

NextEval == Evaluate

SpecEval == InitEval /\ [][NextEval]_vars

(* ---------------------------- comparison ------------------------------- *)
\* 1e-6, the eps handed to approxEquals
Eps == Rat(1, 1000000)

\* the real and imaginary parts (Math.random() - 0.5) * 10 is drawn from
SampleRe == {Int2Num(0), Int2Num(1)}
SampleIm == {Int2Num(0), Int2Num(-1)}

\* `${re}${im>=0?'+':''}${im}i`
BindingText(re, im) ==
    NumToStr(re) \o (IF NumGe(im, Zero) THEN <<"+">> ELSE <<>>) \o NumToStr(im)
        \o <<"i">>

\* the names of the first tree alone
NamesOfFirst(a1, a2) == {ToStr(n) : n \in collectVars(a1)}

\* Array.from(vars) after collectVars(ast1, vars); collectVars(ast2, vars),
\* as the keys an object is indexed by
Names(a1, a2) == {ToStr(n) : n \in collectVars(a1) \cup collectVars(a2)}

\* a round in which a throw counts as a difference
RoundVerdictThrowDiffers(v1, v2) ==
    IF ~v1.ok \/ ~v2.ok THEN "differ"
    ELSE IF ~approxEquals(v1.val, v2.val, Eps) THEN "differ"
    ELSE "agree"

\* the body of the try of one round: "throw" when either evaluation throws,
\* else whether v1 and v2 are approximately equal
RoundVerdict(v1, v2) ==
    IF ~v1.ok \/ ~v2.ok THEN "throw"
    ELSE IF ~approxEquals(v1.val, v2.val, Eps) THEN "differ"
    ELSE "agree"

X == VarNode(T_x)
Y == VarNode(T_y)
\* the pairs of trees compared
EquivPairs ==
    { <<OpNode("+", <<X, N(1)>>), OpNode("+", <<X, N(2)>>)>>,
      <<OpNode("/", <<N(1), N(0)>>), N(2)>>,
      <<N(2), OpNode("/", <<N(1), N(0)>>)>>,
      <<N(2), N(2)>>,
      <<N(1), N(2)>>,
      <<OpNode("*", <<OpNode("+", <<X, N(1)>>), OpNode("-", <<X, N(1)>>)>>),
        OpNode("-", <<OpNode("*", <<X, X>>), N(1)>>)>>,
      <<OpNode("/", <<N(1), X>>), N(1)>>,
      <<OpNode("/", <<X, X>>), N(2)>>,
      <<OpNode("*", <<X, Y>>), OpNode("*", <<Y, X>>)>>,
      <<OpNode("/", <<X, Y>>), CallNode(T_conj, <<X>>)>>,
      <<CallNode(T_conj, <<OpNode("+", <<X, Y>>)>>), X>>,
      <<X, OpNode("/", <<Y, Y>>)>>,
      <<CallNode(T_foo, <<X>>), Y>> }

InitCmp ==
    /\ pc = "loop"
    /\ \E p \in EquivPairs : ast1 = p[1] /\ ast2 = p[2]
    /\ trials \in 0..MaxTrials
    /\ t = 0
    /\ assignment = <<>>
    /\ cmp = NoCmp
    /\ rounds = <<>>
    /\ IdleRT /\ IdleParse /\ IdleEval

\* one pass of the for loop: the bindings are drawn, both trees are
\* evaluated under them; a difference returns, a throw or an agreement goes
\* on to the next pass
Trial ==
    /\ pc = "loop"
    /\ t < trials
    /\ \E a \in [Names(ast1, ast2) -> {BindingText(re, im) : re \in SampleRe, im \in SampleIm}] :
          LET v1 == evalAst(ast1, a)
              v2 == evalAst(ast2, a)
              verdict == RoundVerdict(v1, v2)
          IN /\ assignment' = a
             /\ rounds' = Append(rounds, a)
             /\ IF verdict = "differ"
                THEN /\ cmp' = NotEqual(a, toString(v1.val), toString(v2.val))
                     /\ pc' = "returned"
                     /\ t' = t
                ELSE /\ cmp' = cmp
                     /\ pc' = pc
                     /\ t' = t + 1
    /\ UNCHANGED <<ast1, ast2, trials, varsRT, varsParse, varsEval>>

\* return { equal: true } after the loop
Return ==
    /\ pc = "loop"
    /\ t >= trials
    /\ cmp' = Equal
    /\ pc' = "returned"
    /\ UNCHANGED <<ast1, ast2, trials, t, assignment, rounds, varsRT, varsParse, varsEval>>

NextCmp == Trial \/ Return

SpecEquiv == InitCmp /\ [][NextCmp]_vars

(* ------------------------------ claims --------------------------------- *)
Last(q) == q[Len(q)]

\* C1: round trip. For every complex value z with integer real and imaginary
\* parts, those of imaginary part +1 or -1 and non-zero real part included,
\* Complex.fromString(z.toString()) succeeds and equals z in both components.
RoundTrip == pc = "reparsed" => (back.ok /\ back.val = z)

Pow(a, b) == OpNode("**", <<a, b>>)
Numerals == {<<"2">>, <<"3">>}
NumeralNode(d) == NumNode(Complex(Int2Num(DigitsVal(d)), Zero))

\* C2: power is right-associative in both spellings. For numerals a, b, c the
\* source text a POW b POW c, with POW either "**" or "^", passes tokenize and
\* parseExpression and yields Pow(a, Pow(b, c)); "2**3**2" and "2^3^2" then
\* evaluate to 512.
PowerRightAssoc ==
    \A a \in Numerals, b \in Numerals, c \in Numerals, pw \in {<<"*", "*">>, <<"^">>} :
        (src = a \o pw \o b \o pw \o c /\ pc \in {"failed", "parsed"})
        => /\ pc = "parsed"
           /\ parsed.ok
           /\ parsed.ast = Pow(NumeralNode(a), Pow(NumeralNode(b), NumeralNode(c)))
           /\ (a = <<"2">> /\ b = <<"3">> /\ c = <<"2">>)
              => evalAst(parsed.ast, <<>>) = Ok(Complex(Int2Num(512), Zero))

\* the tokens after which a primary is required
NeedOperand == {<<"+">>, <<"-">>, <<"*">>, <<"/">>, <<"^">>, <<"*", "*">>, <<",">>}

\* C4: parseExpression returns no tree for an incomplete token sequence. When
\* the tokens are empty or end in a binary operator, a unary sign or a comma,
\* the parse fails; and the cursor never passes the number of tokens.
NoAstForIncomplete ==
    pc = "parsed"
    => /\ parsed.pos <= Len(toks)
       /\ (toks = <<>> \/ Last(toks) \in NeedOperand) => ~parsed.ok

IsSign(c) == c \in {"+", "-"}
\* a numeral: digits, with an optional sign when signed
IsNumeral(q, signed) ==
    \/ IsDigits(q) /\ q # <<>>
    \/ signed /\ Len(q) >= 2 /\ IsSign(q[1]) /\ IsDigits(Tail(q))
\* the imaginary numeral before the i: a sign and optional digits
IsImagNumeral(q) == q # <<>> /\ IsSign(q[1]) /\ IsDigits(Tail(q))
\* the complex-literal grammar: a numeral, a signed numeral followed by i, or
\* a real numeral and a signed imaginary numeral followed by i
WellFormedLiteral(q) ==
    \/ IsNumeral(q, TRUE)
    \/ /\ q # <<>> /\ Last(q) = "i"
       /\ LET body == SubSeq(q, 1, Len(q) - 1)
          IN \/ body = <<>>
             \/ IsNumeral(body, TRUE)
             \/ IsImagNumeral(body)
             \/ \E k \in 1..Len(body) - 1 :
                   /\ IsNumeral(SubSeq(body, 1, k), TRUE)
                   /\ IsImagNumeral(SubSeq(body, k + 1, Len(body)))

\* C5: a malformed binding fails. Evaluating Variable(x) with x bound to a
\* non-empty text outside the complex-literal grammar fails with an error;
\* no fallback value such as (0,0) is returned.
MalformedBindingFails ==
    (/\ pc = "evaluated"
     /\ ast = VarNode(T_x)
     /\ T_x \in DOMAIN env
     /\ RemoveWs(env[T_x]) # <<>>
     /\ ~WellFormedLiteral(RemoveWs(env[T_x])))
    => ~res.ok

\* the node evaluated is a binary operator node of one of ops
BinaryDone(ops) ==
    pc = "evaluated" /\ ast.type = "op" /\ ast.op \in ops /\ Len(ast.args) = 2
\* the outcomes of the operands of the node evaluated, each taken alone
LeftOutcome == evalAst(ast.args[1], env)
RightOutcome == evalAst(ast.args[2], env)
Raised(e) == ~res.ok /\ res.err = e

\* C3 as stated: for every binary operator node (Add, Sub, Mul, Div, Pow) a
\* failure of the left operand is the failure reported, whatever the right
\* operand would do.
LeftOperandFirst ==
    (BinaryDone(BinOps) /\ ~LeftOutcome.ok) => res = LeftOutcome

\* C3 amended: Add, Sub, Mul and Pow report the failure of the left operand
\* first and else that of the right operand.  Div takes the right operand
\* first: its failure is the one reported; if it is (0,0) DivisionByZero is
\* reported; only then is a failure of the left operand reported.
OperandOrder ==
    /\ BinaryDone({"+", "-", "*", "**"})
       => /\ ~LeftOutcome.ok => res = LeftOutcome
          /\ (LeftOutcome.ok /\ ~RightOutcome.ok) => res = RightOutcome
    /\ BinaryDone({"/"})
       => /\ ~RightOutcome.ok => res = RightOutcome
          /\ (RightOutcome.ok /\ RightOutcome.val = CZero)
             => Raised("DivisionByZero")
          /\ (RightOutcome.ok /\ RightOutcome.val # CZero /\ ~LeftOutcome.ok)
             => res = LeftOutcome

\* C3 witness: a Div whose left operand fails and whose right operand is
\* (0,0) has reported DivisionByZero
OperandOrderWitness ==
    /\ BinaryDone({"/"})
    /\ ~LeftOutcome.ok /\ LeftOutcome.err = "UnboundVariable"
    /\ RightOutcome.ok /\ RightOutcome.val = CZero
    /\ Raised("DivisionByZero")

\* re * re + im * im
SquaredModulus(v) == NumAdd(NumMul(v.re, v.re), NumMul(v.im, v.im))

\* C8 as stated: a Div whose right operand evaluates to (0,0) fails with
\* DivisionByZero; when the right operand is not (0,0) and both operands
\* evaluate, DivisionByZero is not raised.
NoDivisionByZeroForNonZero ==
    BinaryDone({"/"})
    => /\ (RightOutcome.ok /\ RightOutcome.val = CZero) => Raised("DivisionByZero")
       /\ (LeftOutcome.ok /\ RightOutcome.ok /\ RightOutcome.val # CZero)
          => ~Raised("DivisionByZero")

\* C8 amended: a Div whose right operand evaluates to (0,0) fails with
\* DivisionByZero; when both operands evaluate, DivisionByZero is raised
\* exactly when the squared modulus re*re + im*im of the right operand is 0
\* as a double, which it also is for a right operand so small that its
\* squares underflow; otherwise the division yields a value.
DivisionByZeroWhen ==
    BinaryDone({"/"})
    => /\ (RightOutcome.ok /\ RightOutcome.val = CZero) => Raised("DivisionByZero")
       /\ (LeftOutcome.ok /\ RightOutcome.ok)
          => IF NumIsZero(SquaredModulus(RightOutcome.val))
             THEN Raised("DivisionByZero")
             ELSE res.ok

\* C8 witness: a Div of two operands that evaluate, the right one not (0,0),
\* has raised DivisionByZero
UnderflowDivisionWitness ==
    /\ BinaryDone({"/"})
    /\ LeftOutcome.ok /\ RightOutcome.ok /\ RightOutcome.val # CZero
    /\ Raised("DivisionByZero")

\* the outcomes of the arguments of the call evaluated, each taken alone
ArgOutcome(k) == evalAst(ast.args[k], env)
\* the spellings of a function name in any letter case
Spellings(name) == {q \in FnNames : Len(q) = Len(name) /\
                       \A k \in 1..Len(q) : q[k] = name[k] \/
                           \E j \in 1..26 : Upper[j] = q[k] /\ Lower[j] = name[k]}
KnownFns == UNION {Spellings(f) : f \in {T_conj, T_conjugate, T_sqrt, T_raiz}}

\* C10: a call evaluates its arguments left to right before any check of the
\* name or the arity: the first failing argument's error is the one reported.
\* When all arguments evaluate, conj, conjugate, sqrt and raiz in any letter
\* case succeed with exactly 1 argument and fail with ArityError with 0 or
\* with 2 or more; any other name fails with UnknownFunction, whatever the
\* number of arguments.
CallDispatch ==
    (pc = "evaluated" /\ ast.type = "call")
    => LET n == Len(ast.args)
           failing == {k \in 1..n : ~ArgOutcome(k).ok}
       IN IF failing # {}
          THEN res = ArgOutcome(CHOOSE k \in failing : \A j \in failing : k <= j)
          ELSE IF ast.name \in KnownFns
               THEN IF n = 1 THEN res.ok ELSE Raised("ArityError")
               ELSE Raised("UnknownFunction")

\* C10 witness: a call of a known function written in upper case, with one
\* argument that evaluates, has yielded a value
CallDispatchWitness ==
    /\ pc = "evaluated" /\ ast.type = "call"
    /\ ast.name = <<"S", "Q", "R", "T">>
    /\ Len(ast.args) = 1 /\ ArgOutcome(1).ok
    /\ res.ok

PowTokens == {<<"*", "*">>, <<"^">>}
\* the outcome of parsing the tokens q alone as one primary
AsPrimary(q) == parseRule("parsePrimary", q, 0)
\* q is one complete primary
IsPrimary(q) == q # <<>> /\ AsPrimary(q).ok /\ AsPrimary(q).pos = Len(q)
\* the tree of a signed operand
Signed(sign, tree) == IF sign = <<"-">> THEN OpNode("neg", <<tree>>) ELSE tree

\* C9: a unary minus binds to the primary that follows it, tighter than every
\* binary operator.  For primaries p and q the tokens [-, p, POW, q], with POW
\* either '**' or '^', parse to Pow(Negate(p), q) and not to
\* Negate(Pow(p, q)); a unary '+' in the place of the '-' adds no node.
UnaryBindsPrimary ==
    pc = "parsed"
    => \A sign \in {<<"+">>, <<"-">>} :
          /\ \A k \in 3..Len(toks) - 1 :
                LET p == SubSeq(toks, 2, k - 1)
                    q == SubSeq(toks, k + 1, Len(toks))
                IN (toks[1] = sign /\ toks[k] \in PowTokens /\ IsPrimary(p) /\ IsPrimary(q))
                   => /\ parsed.ok
                      /\ parsed.ast = Pow(Signed(sign, AsPrimary(p).ast), AsPrimary(q).ast)
          /\ (Len(toks) >= 2 /\ toks[1] = sign /\ IsPrimary(Tail(toks)))
             => /\ parsed.ok
                /\ parsed.ast = Signed(sign, AsPrimary(Tail(toks)).ast)

\* C9 witness: the tokens [-, 2, **, 2] have parsed to Pow(Negate(2), 2)
UnaryBindsPrimaryWitness ==
    /\ pc = "parsed"
    /\ toks = <<<<"-">>, <<"2">>, <<"*", "*">>, <<"2">>>>
    /\ parsed.ok
    /\ parsed.ast = Pow(OpNode("neg", <<N(2)>>), N(2))

\* evaluating either tree under the binding a fails
Throws(a) == ~evalAst(ast1, a).ok \/ ~evalAst(ast2, a).ok
AllThrow == \A k \in 1..Len(rounds) : Throws(rounds[k])

\* C6: a round in which evaluating either tree fails is discarded.  It does
\* not cause { equal: false } and does not end the call: the loop counter
\* moves on to the next round.  When every one of the trials rounds is
\* discarded, or trials is 0, the call returns { equal: true }.
FailedRoundsDiscarded ==
    /\ (rounds # <<>> /\ Throws(Last(rounds)))
       => /\ cmp.returned => cmp.equal
          /\ t = Len(rounds)
    /\ (pc = "returned" /\ AllThrow)
       => cmp = Equal /\ Len(rounds) = trials
    /\ (pc = "loop" /\ AllThrow /\ t >= trials) => ENABLED Return

\* C6 witness: a call asked for a round or more has returned { equal: true }
\* after every round was discarded
FailedRoundsDiscardedWitness ==
    /\ pc = "returned" /\ cmp.equal
    /\ trials >= 1 /\ Len(rounds) = trials
    /\ AllThrow

\* both trees evaluate under the binding a, to values that differ by eps or
\* more in the real or in the imaginary part
Differs(a) ==
    LET v1 == evalAst(ast1, a)
        v2 == evalAst(ast2, a)
    IN /\ v1.ok /\ v2.ok
       /\ \/ NumGe(NumAbs(NumSub(v1.val.re, v2.val.re)), Eps)
          \/ NumGe(NumAbs(NumSub(v1.val.im, v2.val.im)), Eps)

RECURSIVE FreeNames(_)
\* the free variable names of a tree
FreeNames(tree) ==
    CASE tree.type = "var" -> {tree.name}
      [] tree.type \in {"op", "call"} ->
            UNION {FreeNames(tree.args[k]) : k \in 1..Len(tree.args)}
      [] OTHER -> {}

\* C7: the call returns { equal: false } exactly when some round evaluates
\* both trees to values that differ beyond epsilon.  It returns at the first
\* such round and runs no round after it.  The counterexample is that round's
\* binding, both reported values are the values computed under it, and the
\* keys of a round's binding are exactly the free variable names of the two
\* trees together.
NotEqualAtFirstDifference ==
    /\ \A k \in 1..Len(rounds) :
          /\ DOMAIN rounds[k] = FreeNames(ast1) \cup FreeNames(ast2)
          /\ k < Len(rounds) => ~Differs(rounds[k])
    /\ pc = "loop" => \A k \in 1..Len(rounds) : ~Differs(rounds[k])
    /\ pc = "returned"
       => /\ ~cmp.equal <=> (rounds # <<>> /\ Differs(Last(rounds)))
          /\ ~cmp.equal
             => /\ cmp.counterexample = Last(rounds)
                /\ cmp.v1 = toString(evalAst(ast1, Last(rounds)).val)
                /\ cmp.v2 = toString(evalAst(ast2, Last(rounds)).val)

\* C7 witness: x+1 and x+2 compared with two rounds asked for: the call has
\* returned { equal: false } after one round
NotEqualAtFirstDifferenceWitness ==
    /\ pc = "returned" /\ ~cmp.equal
    /\ ast1 = OpNode("+", <<X, N(1)>>) /\ ast2 = OpNode("+", <<X, N(2)>>)
    /\ trials = 2 /\ Len(rounds) = 1
    /\ DOMAIN cmp.counterexample = {T_x}

=============================================================================
